---- MODULE Spec2Model ----
(***************************************************************************)
(* Model of the VoicebotV2 chat relay: POST /api/chat with an optional     *)
(* uploaded file, file-to-text normalization by MIME type, one call to the *)
(* completion endpoint and the shaping of the HTTP response.               *)
(*                                                                         *)
(* The repository holds three iterations of the same server:               *)
(*   iteration 1  src/app.js                    (upload filter, timing)    *)
(*   iteration 2  src/unnamed/part_000:1-178    (handler-level 400)        *)
(*   iteration 3  src/unnamed/part_000:180-300  (single catch branch)      *)
(* The variable `iteration` selects which of them serves the request.      *)
(*                                                                         *)
(* JavaScript text is modelled by TLA+ strings; a JavaScript value is a    *)
(* record [t, s, n] tagged with its type.                                  *)
(***************************************************************************)
EXTENDS Integers, Sequences, FiniteSets, TLC

VARIABLES
    iteration,     \* which of the three servers is running
    pc,            \* position of the request: idle, handler, awaitParse, awaitCompletion, done
    query,         \* req.body.query
    file,          \* req.file (present = FALSE when the request has no file field)
    upload,        \* the temporary file under uploads/: none, stored, deleted
    fileContent,   \* the handler's local fileContent
    norm,          \* outcome of the normalization branch: none, pending, ok, failed, unsupported
    unlinkCalls,   \* number of fs.unlink calls issued for the temporary file
    unlinkPending, \* number of fs.unlink calls whose callback has not run yet
    calls,         \* the message sequences of the axios.post calls issued
    result,        \* what axios.post settled with (response or error)
    responses,     \* the HTTP responses sent on res
    trace          \* the order of the side effects of the request

vars == <<iteration, pc, query, file, upload, fileContent, norm, unlinkCalls,
          unlinkPending, calls, result, responses, trace>>

---------------------------------------------------------------------------
(* Bounds of the model *)

MaxRawLen == 3
MaxRows == 2
MaxElapsed == 1

---------------------------------------------------------------------------
(* JavaScript values *)

Undefined == [t |-> "undefined", s |-> "", n |-> 0]
Null == [t |-> "null", s |-> "", n |-> 0]
Str(s) == [t |-> "string", s |-> s, n |-> 0]
Num(n) == [t |-> "number", s |-> "", n |-> n]

\* ToBoolean, as used by `||` and `if (...)`
Truthy(v) ==
    \/ v.t = "string" /\ v.s # ""
    \/ v.t = "number" /\ v.n # 0

Digit(d) == SubSeq("0123456789", d + 1, d + 1)

RECURSIVE ToDecimal(_)
ToDecimal(n) == IF n < 10 THEN Digit(n) ELSE ToDecimal(n \div 10) \o Digit(n % 10)

\* ToString, as applied by a template literal `${v}`
TemplateString(v) ==
    CASE v.t = "string" -> v.s
      [] v.t = "number" -> ToDecimal(v.n)
      [] v.t = "null" -> "null"
      [] OTHER -> "undefined"

\* a || b
Or(a, b) == IF Truthy(a) THEN a ELSE b

---------------------------------------------------------------------------
(* Uploaded files *)

CSV == "text/csv"
TXT == "text/plain"
JSON == "application/json"
XLSX == "application/vnd.openxmlformats-officedocument.spreadsheetml.sheet"
PNG == "image/png"

MimeTypes == {CSV, TXT, JSON, XLSX, PNG}

Alphabet == {"[", "]", "1", " "}

RECURSIVE Texts(_)
Texts(n) == IF n = 0 THEN {""}
            ELSE Texts(n - 1) \cup {s \o c : s \in Texts(n - 1), c \in Alphabet}

RawTexts == Texts(MaxRawLen)

NoFile == [present |-> FALSE, mimetype |-> "", raw |-> "", rows |-> 0, readOK |-> TRUE]

\* raw: the bytes of a text or JSON upload; rows: the number of data rows of
\* a CSV or spreadsheet upload; readOK: whether the temporary file can be
\* read and decoded by the reader of its type.
Files ==
    {[present |-> TRUE, mimetype |-> m, raw |-> r, rows |-> 0, readOK |-> TRUE] :
        m \in {TXT, JSON}, r \in RawTexts}
    \cup {[present |-> TRUE, mimetype |-> m, raw |-> "", rows |-> k, readOK |-> TRUE] :
        m \in {CSV, XLSX}, k \in 0..MaxRows}
    \cup {[present |-> TRUE, mimetype |-> m, raw |-> "", rows |-> 0, readOK |-> FALSE] :
        m \in {CSV, TXT, JSON, XLSX}}
    \cup {[present |-> TRUE, mimetype |-> PNG, raw |-> "", rows |-> 0, readOK |-> TRUE]}

Queries == {Undefined, Str(""), Str("hi")}

\* multer fileFilter of iteration 1: allowedTypes.includes(file.mimetype)
FileFilter(f) == f.mimetype \in {CSV, TXT, JSON, XLSX}

---------------------------------------------------------------------------
(* JSON.parse and JSON.stringify on the texts of RawTexts: whitespace,     *)
(* numbers written with the digit 1, and arrays of at most one element.    *)

RECURSIVE StripLeft(_)
StripLeft(s) == IF s # "" /\ Head(s) = " " THEN StripLeft(Tail(s)) ELSE s

RECURSIVE StripRight(_)
StripRight(s) ==
    IF s # "" /\ SubSeq(s, Len(s), Len(s)) = " "
    THEN StripRight(SubSeq(s, 1, Len(s) - 1)) ELSE s

Strip(s) == StripRight(StripLeft(s))

IsNumber(s) == s # "" /\ \A i \in 1..Len(s) : SubSeq(s, i, i) = "1"

SyntaxError == [ok |-> FALSE, depth |-> 0, num |-> ""]

\* The parsed value: `depth` nested arrays around the number `num`
\* (num = "" for an empty innermost array).
RECURSIVE JSONParse(_)
JSONParse(s) ==
    LET t == Strip(s) IN
    IF IsNumber(t) THEN [ok |-> TRUE, depth |-> 0, num |-> t]
    ELSE IF Len(t) >= 2 /\ Head(t) = "[" /\ SubSeq(t, Len(t), Len(t)) = "]"
    THEN LET inner == Strip(SubSeq(t, 2, Len(t) - 1)) IN
         IF inner = "" THEN [ok |-> TRUE, depth |-> 1, num |-> ""]
         ELSE LET v == JSONParse(inner) IN
              IF v.ok THEN [ok |-> TRUE, depth |-> v.depth + 1, num |-> v.num]
              ELSE SyntaxError
    ELSE SyntaxError

RECURSIVE Repeat(_, _)
Repeat(s, k) == IF k = 0 THEN "" ELSE s \o Repeat(s, k - 1)

JSONStringify(v) == Repeat("[", v.depth) \o v.num \o Repeat("]", v.depth)

\* JSON.stringify of an array of k equal elements, each serialised as item
RECURSIVE Join(_, _)
Join(item, k) == IF k = 0 THEN "" ELSE IF k = 1 THEN item ELSE item \o "," \o Join(item, k - 1)

StringifyArray(item, k) == "[" \o Join(item, k) \o "]"

\* one record of csv-parser, and one row.values of ExcelJS, serialised
CsvRecord == "{\"h\":\"1\"}"
RowValues == "[null,1]"

---------------------------------------------------------------------------
(* The normalization branch of the handler: status is ok (content is the   *)
(* new fileContent), error (the branch threw or rejected) or unsupported   *)
(* (the else branch of iterations 2 and 3).                                *)

Normalized(c) == [status |-> "ok", content |-> c]
Threw == [status |-> "error", content |-> ""]
Unsupported == [status |-> "unsupported", content |-> ""]

\* Normalize with the JSON branch reading the text without parsing it
Normalize_NoParse(it, f) ==
    IF f.mimetype = CSV THEN
        IF f.readOK THEN Normalized(StringifyArray(CsvRecord, f.rows)) ELSE Threw
    ELSE IF f.mimetype \in {TXT, JSON} THEN
        IF f.readOK THEN Normalized(f.raw) ELSE Threw
    ELSE IF f.mimetype = XLSX THEN
        IF f.readOK THEN Normalized(StringifyArray(RowValues, f.rows)) ELSE Threw
    ELSE IF it = 1 THEN Normalized("")
    ELSE Unsupported

Normalize(it, f) ==
    IF f.mimetype = CSV THEN
        IF f.readOK THEN Normalized(StringifyArray(CsvRecord, f.rows)) ELSE Threw
    ELSE IF f.mimetype = TXT THEN
        IF f.readOK THEN Normalized(f.raw) ELSE Threw
    ELSE IF f.mimetype = JSON THEN
        IF f.readOK /\ JSONParse(f.raw).ok
        THEN Normalized(JSONStringify(JSONParse(f.raw))) ELSE Threw
    ELSE IF f.mimetype = XLSX THEN
        IF f.readOK THEN Normalized(StringifyArray(RowValues, f.rows)) ELSE Threw
    ELSE IF it = 1 THEN Normalized("")
    ELSE Unsupported

\* the branches that suspend on an await before fileContent is assigned
Awaited(f) == f.mimetype \in {CSV, XLSX}

---------------------------------------------------------------------------
(* Prompt assembly *)

DefaultInstruction == "Please summarize the file content."

Message(c) == [role |-> "user", content |-> c]

\* BuildMessages testing `fileContent !== ''` instead of its truthiness
BuildMessages_NotEmptyString(q, fc) ==
    <<Message(Or(q, Str(DefaultInstruction)).s)>>
    \o (IF fc # Str("") THEN <<Message("File content: " \o TemplateString(fc))>> ELSE <<>>)

\* BuildMessages testing `fileContent !== null` instead of its truthiness
BuildMessages_NotNull(q, fc) ==
    <<Message(Or(q, Str(DefaultInstruction)).s)>>
    \o (IF fc # Null THEN <<Message("File content: " \o TemplateString(fc))>> ELSE <<>>)

BuildMessages(q, fc) ==
    <<Message(Or(q, Str(DefaultInstruction)).s)>>
    \o (IF Truthy(fc) THEN <<Message("File content: " \o TemplateString(fc))>> ELSE <<>>)

---------------------------------------------------------------------------
(* What axios.post settles with *)

\* choices[0] of the response body: message may be missing, and so may its content
Choice(hasMessage, content) == [hasMessage |-> hasMessage, content |-> content]

ChoiceLists ==
    {<<>>,
     <<Choice(FALSE, Undefined)>>,
     <<Choice(TRUE, Undefined)>>,
     <<Choice(TRUE, Str(""))>>,
     <<Choice(TRUE, Str("ok"))>>,
     <<Choice(TRUE, Str("ok")), Choice(TRUE, Str("no"))>>}

TokenCounts == {12}

\* response.data: its choices and usage fields may each be missing
ResponseData ==
    {[hasChoices |-> TRUE, choices |-> cl, hasUsage |-> TRUE, total_tokens |-> Num(k)] :
        cl \in ChoiceLists, k \in TokenCounts}
    \cup {[hasChoices |-> TRUE, choices |-> <<Choice(TRUE, Str("ok"))>>,
           hasUsage |-> TRUE, total_tokens |-> Undefined],
          [hasChoices |-> FALSE, choices |-> <<>>, hasUsage |-> TRUE, total_tokens |-> Num(12)],
          [hasChoices |-> TRUE, choices |-> <<Choice(TRUE, Str("ok"))>>,
           hasUsage |-> FALSE, total_tokens |-> Undefined],
          [hasChoices |-> FALSE, choices |-> <<>>, hasUsage |-> FALSE, total_tokens |-> Undefined]}

NoData == [hasChoices |-> FALSE, choices |-> <<>>, hasUsage |-> FALSE, total_tokens |-> Undefined]

\* an error object: error.response (with its data), error.request, error.message
Error(hasResponse, data, hasRequest, message) ==
    [hasResponse |-> hasResponse, data |-> data, hasRequest |-> hasRequest, message |-> message]

NoError == Error(FALSE, Undefined, FALSE, "")

TypeError(property) ==
    Error(FALSE, Undefined, FALSE,
          "Cannot read properties of undefined (reading '" \o property \o "')")

RemotePayloads == {Str("quota exceeded"), Str("invalid key")}

AxiosErrors ==
    {Error(TRUE, p, TRUE, "Request failed with status code 429") : p \in RemotePayloads}
    \cup {Error(FALSE, Undefined, TRUE, "Network Error"),
          Error(FALSE, Undefined, FALSE, "Invalid URL")}

Elapsed == 0..MaxElapsed

NoResult == [kind |-> "none", data |-> NoData, error |-> NoError, elapsed |-> 0]

\* elapsed is Date.now() at line 157 minus Date.now() at line 138 of src/app.js
Results ==
    {[kind |-> "response", data |-> d, error |-> NoError, elapsed |-> e] :
        d \in ResponseData, e \in Elapsed}
    \cup {[kind |-> "error", data |-> NoData, error |-> x, elapsed |-> 0] : x \in AxiosErrors}

---------------------------------------------------------------------------
(* HTTP responses: res.json(body) with the keys response, message and      *)
(* details (Undefined = key not in the body), res.send(text), or the       *)
(* framework's answer to an error raised by the upload middleware.         *)

Json(status, response, message, details) ==
    [status |-> status, kind |-> "json", response |-> response,
     message |-> message, details |-> details, text |-> ""]

Send(status, text) ==
    [status |-> status, kind |-> "text", response |-> Undefined,
     message |-> Undefined, details |-> Undefined, text |-> text]

\* multer hands cb's Error to Express, whose default error handler answers 500
UploadRejected ==
    [status |-> 500, kind |-> "framework", response |-> Undefined,
     message |-> Undefined, details |-> Undefined,
     text |-> "Unsupported file type. Please upload a CSV, TXT, JSON, or XLSX file."]

Fallback == "No response from AI"
FallbackV3 == "No valid response from the AI."

\* choices[0]?.message?.content
FirstContent(d) ==
    IF Len(d.choices) = 0 THEN Undefined
    ELSE IF ~d.choices[1].hasMessage THEN Undefined
    ELSE d.choices[1].content

Returned(r) == [thrown |-> FALSE, error |-> NoError, response |-> r]
Thrown(e) == [thrown |-> TRUE, error |-> e, response |-> Send(0, "")]

Footer(responseTime, tokensUsed) ==
    "\n\n---\nResponse time: " \o TemplateString(Num(responseTime))
    \o " ms | Tokens used: " \o TemplateString(tokensUsed)

\* the statements after the await inside the try block, iteration 1
Success1(d, elapsed) ==
    IF ~d.hasUsage THEN Thrown(TypeError("total_tokens"))
    ELSE IF ~d.hasChoices THEN Thrown(TypeError("0"))
    ELSE Returned(Json(200,
            Str(TemplateString(Or(FirstContent(d), Str(Fallback))) \o Footer(elapsed, d.total_tokens)),
            Undefined, Undefined))

\* iteration 2
Success2(d) ==
    IF ~d.hasChoices THEN Thrown(TypeError("0"))
    ELSE Returned(Json(200, Or(FirstContent(d), Str(Fallback)), Undefined, Undefined))

\* iteration 3
Success3(d) ==
    IF d.hasChoices /\ Len(d.choices) > 0
    THEN IF ~d.choices[1].hasMessage THEN Thrown(TypeError("content"))
         ELSE Returned(Json(200, d.choices[1].content, Undefined, Undefined))
    ELSE Returned(Json(200, Str(FallbackV3), Undefined, Undefined))

\* the catch block of iterations 1 and 2
Catch12(e) ==
    IF e.hasResponse
    THEN Json(500, Undefined, Str("Error fetching response from OpenAI"), e.data)
    ELSE IF e.hasRequest
    THEN Json(500, Undefined, Str("Network error: No response received from OpenAI"), Undefined)
    ELSE Json(500, Undefined, Str("Error processing request"), Str(e.message))

\* the catch block of iteration 3
Catch3(e) == Json(500, Undefined, Str("Error processing request"), Str(e.message))

Catch(it, e) == IF it = 3 THEN Catch3(e) ELSE Catch12(e)

Success(it, d, elapsed) ==
    IF it = 1 THEN Success1(d, elapsed) ELSE IF it = 2 THEN Success2(d) ELSE Success3(d)

\* what processQueryAndRespond sends once axios.post has settled with r
Respond(it, r) ==
    IF r.kind = "error" THEN Catch(it, r.error)
    ELSE LET o == Success(it, r.data, r.elapsed) IN
         IF o.thrown THEN Catch(it, o.error) ELSE o.response

---------------------------------------------------------------------------
(* The request *)

Init ==
    /\ iteration \in {1, 2, 3}
    /\ pc = "idle"
    /\ query = Undefined
    /\ file = NoFile
    /\ upload = "none"
    /\ fileContent = Str("")
    /\ norm = "none"
    /\ unlinkCalls = 0
    /\ unlinkPending = 0
    /\ calls = <<>>
    /\ result = NoResult
    /\ responses = <<>>
    /\ trace = <<>>

\* upload.single('file'): the request arrives with query q and file part f;
\* an accepted file is stored under uploads/ and the handler is entered.
Upload(q, f) ==
    /\ pc = "idle"
    /\ query' = q
    /\ file' = f
    /\ IF f.present /\ iteration = 1 /\ ~FileFilter(f)
       THEN /\ pc' = "done"
            /\ upload' = "none"
            /\ responses' = Append(responses, UploadRejected)
            /\ trace' = Append(trace, "respond")
       ELSE /\ pc' = "handler"
            /\ upload' = IF f.present THEN "stored" ELSE "none"
            /\ UNCHANGED <<responses, trace>>
    /\ UNCHANGED <<iteration, fileContent, norm, unlinkCalls, unlinkPending, calls, result>>

\* fs.unlink(filePath, callback)
Unlink ==
    /\ unlinkCalls' = unlinkCalls + 1
    /\ unlinkPending' = unlinkPending + 1

\* processQueryAndRespond up to its await: the messages are built and the
\* completion call is issued
IssueCompletion(q, fc) ==
    /\ calls' = Append(calls, BuildMessages(q, fc))
    /\ pc' = "awaitCompletion"
    /\ UNCHANGED <<responses, result>>

\* AfterNormalize with the unlink moved after the call of processQueryAndRespond
AfterNormalize_CallFirst(c) ==
    /\ fileContent' = Str(c)
    /\ norm' = "ok"
    /\ Unlink
    /\ IssueCompletion(query, Str(c))
    /\ trace' = trace \o <<"normalize", "call", "unlink">>

\* normalization succeeded with content c: the temporary file is unlinked,
\* then processQueryAndRespond(query, fileContent, res) is called
AfterNormalize(c) ==
    /\ fileContent' = Str(c)
    /\ norm' = "ok"
    /\ Unlink
    /\ IssueCompletion(query, Str(c))
    /\ trace' = trace \o <<"normalize", "unlink", "call">>

\* FileError answering with the status of a client error
FileError_BadRequest ==
    /\ norm' = "failed"
    /\ responses' = Append(responses, Send(400, "Error processing file"))
    /\ pc' = "done"
    /\ trace' = trace \o <<"normalize", "respond">>
    /\ UNCHANGED <<fileContent, unlinkCalls, unlinkPending, calls, result>>

\* the catch block of the handler
FileError ==
    /\ norm' = "failed"
    /\ responses' = Append(responses, Send(500, "Error processing file"))
    /\ pc' = "done"
    /\ trace' = trace \o <<"normalize", "respond">>
    /\ UNCHANGED <<fileContent, unlinkCalls, unlinkPending, calls, result>>

UnsupportedText(it) ==
    IF it = 2 THEN "Unsupported file type. Please upload a CSV, TXT, JSON, or XLSX file."
    ELSE "Unsupported file type."

\* RejectUnsupported without its `return`: the handler goes on to the
\* completion call after the 400 has been sent
RejectUnsupported_NoReturn ==
    /\ norm' = "unsupported"
    /\ unlinkCalls' = unlinkCalls + 2
    /\ unlinkPending' = unlinkPending + 2
    /\ responses' = Append(responses, Send(400, UnsupportedText(iteration)))
    /\ calls' = Append(calls, BuildMessages(query, fileContent))
    /\ pc' = "awaitCompletion"
    /\ trace' = trace \o <<"unlink", "respond", "unlink", "call">>
    /\ UNCHANGED <<fileContent, result>>

\* the else branch of iterations 2 and 3
RejectUnsupported ==
    /\ norm' = "unsupported"
    /\ Unlink
    /\ responses' = Append(responses, Send(400, UnsupportedText(iteration)))
    /\ pc' = "done"
    /\ trace' = trace \o <<"unlink", "respond">>
    /\ UNCHANGED <<fileContent, calls, result>>

Settle(n) ==
    IF n.status = "ok" THEN AfterNormalize(n.content)
    ELSE IF n.status = "unsupported" THEN RejectUnsupported
    ELSE FileError

\* the handler from its entry to its first await
Handler ==
    /\ pc = "handler"
    /\ IF file.present
       THEN IF Awaited(file)
            THEN /\ pc' = "awaitParse"
                 /\ norm' = "pending"
                 /\ UNCHANGED <<fileContent, unlinkCalls, unlinkPending, calls,
                                result, responses, trace>>
            ELSE Settle(Normalize(iteration, file))
       ELSE /\ IssueCompletion(query, Null)
            /\ trace' = Append(trace, "call")
            /\ UNCHANGED <<fileContent, norm, unlinkCalls, unlinkPending>>
    /\ UNCHANGED <<iteration, query, file, upload>>

\* the awaited CSV stream or workbook read settles and the handler resumes
ParseSettled ==
    /\ pc = "awaitParse"
    /\ Settle(Normalize(iteration, file))
    /\ UNCHANGED <<iteration, query, file, upload>>

\* axios.post settles with r and processQueryAndRespond answers the caller
CompletionSettled(r) ==
    /\ pc = "awaitCompletion"
    /\ iteration # 1 => r.elapsed = 0    \* only iteration 1 reads the clock
    /\ result' = r
    /\ responses' = Append(responses, Respond(iteration, r))
    /\ trace' = Append(trace, "respond")
    /\ pc' = "done"
    /\ UNCHANGED <<iteration, query, file, upload, fileContent, norm,
                   unlinkCalls, unlinkPending, calls>>

\* the callback of fs.unlink runs: the file is gone, or err is logged
UnlinkCallback(err) ==
    /\ unlinkPending > 0
    /\ unlinkPending' = unlinkPending - 1
    /\ upload' = IF err THEN upload ELSE "deleted"
    /\ UNCHANGED <<iteration, pc, query, file, fileContent, norm, unlinkCalls,
                   calls, result, responses, trace>>

Next ==
    \/ \E q \in Queries, f \in Files \cup {NoFile} : Upload(q, f)
    \/ Handler
    \/ ParseSettled
    \/ \E r \in Results : CompletionSettled(r)
    \/ \E err \in BOOLEAN : UnlinkCallback(err)

Spec == Init /\ [][Next]_vars

TypeOK ==
    /\ iteration \in {1, 2, 3}
    /\ pc \in {"idle", "handler", "awaitParse", "awaitCompletion", "done"}
    /\ upload \in {"none", "stored", "deleted"}
    /\ norm \in {"none", "pending", "ok", "failed", "unsupported"}
    /\ unlinkCalls \in 0..2
    /\ unlinkPending \in 0..unlinkCalls

---------------------------------------------------------------------------
(* Vocabulary of the properties *)

Finished == pc = "done"

\* the only response of a finished request
TheResponse == responses[1]

IsSuccessBody(r) ==
    r.status = 200 /\ r.kind = "json" /\ r.message = Undefined /\ r.details = Undefined

IsErrorBody(r) == r.status >= 400 /\ r.response = Undefined

\* the request has reached the handler (iteration 1 turns unsupported types
\* away in the upload middleware, before the handler)
HandlerEntered == pc # "idle" /\ ~(iteration = 1 /\ file.present /\ ~FileFilter(file))

\* the file part of the request has a type outside the four accepted ones
UnsupportedFile == file.present /\ file.mimetype \notin {CSV, TXT, JSON, XLSX}

MalformedJson ==
    file.present /\ file.mimetype = JSON /\ file.readOK /\ ~JSONParse(file.raw).ok

\* the file part has an accepted type but cannot be read or parsed
UnreadableFile ==
    file.present /\ file.mimetype \in {CSV, TXT, JSON, XLSX} /\ (~file.readOK \/ MalformedJson)

Occurs(e) == \E i \in 1..Len(trace) : trace[i] = e

\* every occurrence of b in the trace comes after an occurrence of a
Precedes(a, b) ==
    \A j \in 1..Len(trace) : trace[j] = b => \E i \in 1..(j - 1) : trace[i] = a

StartsWith(t, prefix) == Len(t) >= Len(prefix) /\ SubSeq(t, 1, Len(prefix)) = prefix

IsDigits(t) ==
    t # "" /\ \A i \in 1..Len(t) :
        SubSeq(t, i, i) \in {"0", "1", "2", "3", "4", "5", "6", "7", "8", "9"}

FooterHead == "\n\n---\nResponse time: "
FooterMid == " ms | Tokens used: "

\* t ends with "\n\n---\nResponse time: <integer> ms | Tokens used: <integer>"
EndsWithFooter(t) ==
    \E i \in 1..Len(t), j \in 1..Len(t) :
        /\ i + Len(FooterHead) < j
        /\ j + Len(FooterMid) <= Len(t)
        /\ SubSeq(t, i, i + Len(FooterHead) - 1) = FooterHead
        /\ IsDigits(SubSeq(t, i + Len(FooterHead), j - 1))
        /\ SubSeq(t, j, j + Len(FooterMid) - 1) = FooterMid
        /\ IsDigits(SubSeq(t, j + Len(FooterMid), Len(t)))

---------------------------------------------------------------------------
(* C1 *)

\* C1 as stated: every request that went through the handler has, on every
\* exit path, issued exactly one completion call and sent exactly one
\* response, which is a success body or an error body and not both.
C1_OneCallOneResponse ==
    (Finished /\ HandlerEntered) =>
        /\ Len(calls) = 1
        /\ Len(responses) = 1
        /\ IsSuccessBody(TheResponse) # IsErrorBody(TheResponse)

\* C1 amended: every finished request has sent exactly one response, a
\* success body or an error body and not both, and no response is sent
\* before; at most one completion call is issued: exactly one when the
\* request has no file or its file was normalized, none when the file was
\* rejected as unsupported or could not be read or parsed.
C1_OneResponseAtMostOneCall ==
    /\ Len(calls) <= 1
    /\ ~Finished => Len(responses) = 0
    /\ Finished =>
        /\ Len(responses) = 1
        /\ IsSuccessBody(TheResponse) # IsErrorBody(TheResponse)
        /\ Len(calls) = IF UnsupportedFile \/ UnreadableFile THEN 0 ELSE 1

C1_Witness ==
    /\ Finished
    /\ UnreadableFile
    /\ Len(calls) = 0
    /\ Len(responses) = 1
    /\ IsErrorBody(TheResponse)

---------------------------------------------------------------------------
(* C2 *)

\* C2: once a request whose file was stored has finished, fs.unlink has
\* been called exactly once for the temporary file.
C2_ReleasedExactlyOnce ==
    (Finished /\ file.present /\ upload # "none") => unlinkCalls = 1

---------------------------------------------------------------------------
(* C3 *)

\* C3 as stated: a request whose file is unsupported or unreadable ends with
\* a plain-text 400 and without a completion call (stated of the requests
\* that the handler itself answers).
C3_BadFileIs400 ==
    (Finished /\ HandlerEntered /\ (UnsupportedFile \/ UnreadableFile)) =>
        /\ Len(responses) = 1
        /\ TheResponse.status = 400
        /\ TheResponse.kind = "text"
        /\ calls = <<>>

\* C3 amended: a request whose file is unsupported or unreadable never
\* issues a completion call; an unsupported file ends with the handler's
\* plain-text 400 in iterations 2 and 3 and with the upload layer's error in
\* iteration 1, where the handler is not entered; an unreadable file ends
\* with the plain-text 500 'Error processing file'.
C3_BadFileNoCompletion ==
    /\ (UnsupportedFile \/ UnreadableFile) => calls = <<>> /\ pc # "awaitCompletion"
    /\ (Finished /\ UnsupportedFile) =>
        /\ Len(responses) = 1
        /\ iteration \in {2, 3} =>
            /\ TheResponse.status = 400
            /\ TheResponse.kind = "text"
            /\ StartsWith(TheResponse.text, "Unsupported file type.")
        /\ iteration = 1 => TheResponse.kind = "framework" /\ norm = "none"
    /\ (Finished /\ UnreadableFile) => responses = <<Send(500, "Error processing file")>>

C3_Witness ==
    /\ Finished
    /\ UnsupportedFile
    /\ iteration = 2
    /\ TheResponse.status = 400
    /\ calls = <<>>

---------------------------------------------------------------------------
(* C4 *)

\* C4: when the completion call fails with a remote error payload, the
\* response has status 500 and its details field is that payload.
C4_RemotePayloadForwarded ==
    (Finished /\ result.kind = "error" /\ result.error.hasResponse) =>
        /\ TheResponse.status = 500
        /\ TheResponse.kind = "json"
        /\ TheResponse.details = result.error.data

---------------------------------------------------------------------------
(* C5 *)

\* C5: a request without a file and with a non-empty query never enters the
\* normalization branch (nothing is read, nothing is unlinked) and its
\* completion call carries exactly one message, whose content is the query.
C5_NoFileOneMessage ==
    (pc # "idle" /\ ~file.present /\ Truthy(query)) =>
        /\ norm = "none"
        /\ fileContent = Str("")
        /\ unlinkCalls = 0
        /\ ~Occurs("normalize") /\ ~Occurs("unlink")
        /\ pc = "handler" => calls = <<>>
        /\ pc \in {"awaitCompletion", "done"} => calls = << <<Message(query.s)>> >>

C5_Witness ==
    /\ Finished
    /\ ~file.present
    /\ query = Str("hi")
    /\ calls = << <<Message("hi")>> >>

---------------------------------------------------------------------------
(* C6 *)

\* the text of the first returned choice, when there is one
HasFirstText(d) ==
    /\ d.hasChoices
    /\ Len(d.choices) > 0
    /\ d.choices[1].hasMessage
    /\ d.choices[1].content.t = "string"
    /\ d.choices[1].content.s # ""

\* C6: when the completion call returns successfully the caller gets a
\* success body carrying the first choice's text, or the fallback string
\* when there is no such text (in iteration 1 followed by the footer).
C6_SuccessOrFallback ==
    (Finished /\ result.kind = "response") =>
        /\ IsSuccessBody(TheResponse)
        /\ TheResponse.response.t = "string"
        /\ LET expected == IF HasFirstText(result.data)
                           THEN {result.data.choices[1].content.s}
                           ELSE {Fallback, FallbackV3}
           IN \E e \in expected :
                IF iteration = 1 THEN StartsWith(TheResponse.response.s, e)
                ELSE TheResponse.response.s = e

---------------------------------------------------------------------------
(* C7 *)

\* C7: in iteration 1 every successful completion yields a success body
\* whose text ends with the response-time and token footer, both integers.
C7_FooterOnEverySuccess ==
    (iteration = 1 /\ Finished /\ result.kind = "response") =>
        /\ IsSuccessBody(TheResponse)
        /\ TheResponse.response.t = "string"
        /\ EndsWithFooter(TheResponse.response.s)

---------------------------------------------------------------------------
(* C8 *)

\* C8: a malformed application/json upload ends the request with the
\* plain-text response 'Error processing file' and nothing else: no parse
\* details, no completion call, and the handler is left.
C8_MalformedJsonGenericError ==
    (MalformedJson /\ pc # "idle" /\ pc # "handler") =>
        /\ Finished
        /\ responses = <<Send(500, "Error processing file")>>
        /\ calls = <<>>

C8_Witness ==
    /\ Finished
    /\ file.present /\ file.mimetype = JSON /\ file.readOK /\ file.raw = "[1"
    /\ responses = <<Send(500, "Error processing file")>>

---------------------------------------------------------------------------
(* C9 *)

\* C9: every completion call carries one or two messages; the first is the
\* query, or the default instruction when the query is empty or absent; the
\* second is there exactly when the request has a file whose normalized
\* content is non-empty, and is 'File content: ' followed by that content.
C9_PromptMessages ==
    \A k \in 1..Len(calls) :
        LET m == calls[k]
            hasContent == file.present /\ fileContent.s # ""
        IN /\ Len(m) \in {1, 2}
           /\ m[1] = Message(IF query.t = "string" /\ query.s # ""
                             THEN query.s ELSE DefaultInstruction)
           /\ Len(m) = 2 <=> hasContent
           /\ Len(m) = 2 => m[2] = Message("File content: " \o fileContent.s)

\* a text file that normalizes to the empty string: one message only
C9_Witness ==
    /\ Len(calls) = 1
    /\ file.present /\ file.mimetype = TXT /\ file.raw = ""
    /\ query = Str("")
    /\ calls[1] = <<Message(DefaultInstruction)>>

---------------------------------------------------------------------------
(* C10 *)

\* C10: for a request with a file, fs.unlink is called only once the
\* normalization has succeeded (or, in iterations 2 and 3, once the type was
\* found unsupported) and before the completion call is issued; no
\* completion call is in flight or answered while the unlink has not been
\* requested; and the step that settles the completion call never changes
\* the number of unlink calls.
C10_State ==
    file.present =>
        /\ unlinkCalls > 0 =>
            \/ norm = "ok" /\ Precedes("normalize", "unlink")
            \/ norm = "unsupported" /\ iteration \in {2, 3}
        /\ Precedes("unlink", "call")
        /\ (pc = "awaitCompletion" \/ result.kind # "none" \/ Len(calls) > 0) =>
            unlinkCalls = 1

C10_UnlinkBeforeCompletion ==
    /\ []C10_State
    /\ [][pc = "awaitCompletion" => unlinkCalls' = unlinkCalls]_vars

C10_Witness ==
    /\ Finished
    /\ file.present
    /\ result.kind = "error"
    /\ trace = <<"normalize", "unlink", "call", "respond">>
    /\ unlinkCalls = 1

====
